---- MODULE Spec2Model ----
(***************************************************************************)
(* Multi-agent task solver: the LangGraph workflow of                      *)
(* backend/src/agents (planner -> researcher -> summarizer -> visualizer,  *)
(* with a ToolNode), and the plot_table tool of backend/src/tools.         *)
(*                                                                         *)
(* A text is a sequence of lines; a line is a sequence of tokens.  A token *)
(* is a string: either one of the delimiters "," "|" " " or a run of       *)
(* other characters.  An assistant text is a sequence of words.            *)
(***************************************************************************)
EXTENDS Integers, Sequences, FiniteSets, TLC

\* ------------------------------------------------------------------ bounds
\* assistant messages of one run that may carry a tool request
MaxToolRequests == 2
\* columns and data rows of the tables given to a direct plot_table call
MaxCols == 2
MaxRows == 2

\* ------------------------------------------------------------ text helpers
Numerals == {"2020", "2021", "100", "200", "1", "2"}

IsSpace(tok) == tok = " "

RECURSIVE DropLeadingSpace(_)
DropLeadingSpace(line) ==
    IF line # <<>> /\ IsSpace(Head(line)) THEN DropLeadingSpace(Tail(line)) ELSE line

RECURSIVE DropTrailingSpace(_)
DropTrailingSpace(line) ==
    IF line # <<>> /\ IsSpace(line[Len(line)])
    THEN DropTrailingSpace(SubSeq(line, 1, Len(line) - 1))
    ELSE line

\* variant: white space is kept
StripLine_keeps_space(line) == line

\* str.strip() of one line
StripLine(line) == DropTrailingSpace(DropLeadingSpace(line))

\* str.strip('|') of one line: every leading and trailing pipe goes
RECURSIVE StripPipes(_)
StripPipes(line) ==
    IF line # <<>> /\ Head(line) = "|" THEN StripPipes(Tail(line))
    ELSE IF line # <<>> /\ line[Len(line)] = "|"
         THEN StripPipes(SubSeq(line, 1, Len(line) - 1))
         ELSE line

\* str.strip() of a whole text: blank lines at both ends go, and the
\* white space that starts the first line and ends the last one
RECURSIVE StripText(_)
StripText(text) ==
    IF text = <<>> THEN <<>>
    ELSE IF StripLine(Head(text)) = <<>> THEN StripText(Tail(text))
    ELSE IF StripLine(text[Len(text)]) = <<>>
         THEN StripText(SubSeq(text, 1, Len(text) - 1))
    ELSE IF Len(text) = 1 THEN <<StripLine(text[1])>>
    ELSE <<DropLeadingSpace(text[1])>>
         \o SubSeq(text, 2, Len(text) - 1)
         \o <<DropTrailingSpace(text[Len(text)])>>

HasToken(text, tok) == \E i \in 1..Len(text) : \E j \in 1..Len(text[i]) : text[i][j] = tok

\* a token made of dashes, colons and white space only
IsDashes(tok) == tok \in {"---", ":--", " "}

\* re.search(r'\|[-\s:]+\|', txt)
HasSeparatorCell(text) ==
    \E i \in 1..Len(text) : \E j \in 1..Len(text[i]) - 2 :
        /\ text[i][j] = "|"
        /\ IsDashes(text[i][j + 1])
        /\ text[i][j + 2] = "|"

\* re.match(r'^\s*\|?\s*-{2,}\s*\|?', line)
IsSeparatorLine(line) ==
    LET a == DropLeadingSpace(line)
        b == IF a # <<>> /\ Head(a) = "|" THEN DropLeadingSpace(Tail(a)) ELSE a
    IN  b # <<>> /\ Head(b) = "---"

\* the fields of one line under a one-token delimiter; a field keeps its
\* tokens (csv does not trim a field)
RECURSIVE SplitOn(_, _, _)
SplitOn(line, sep, cur) ==
    IF line = <<>> THEN <<cur>>
    ELSE IF Head(line) = sep THEN <<cur>> \o SplitOn(Tail(line), sep, <<>>)
    ELSE SplitOn(Tail(line), sep, Append(cur, Head(line)))

\* the fields of one line under sep=r'\s+': white space at both ends is skipped
SplitLine(line, sep) ==
    IF sep = " " THEN SplitOn(StripLine(line), sep, <<>>) ELSE SplitOn(line, sep, <<>>)

RECURSIVE SplitLines(_, _)
SplitLines(text, sep) ==
    IF text = <<>> THEN <<>>
    ELSE IF StripLine(Head(text)) = <<>> THEN SplitLines(Tail(text), sep)
    ELSE <<SplitLine(Head(text), sep)>> \o SplitLines(Tail(text), sep)

Pad(row, n) == [k \in 1..n |-> IF k <= Len(row) THEN row[k] ELSE <<>>]

NoFrame == [ok |-> FALSE, columns |-> <<>>, rows |-> <<>>]

\* pd.read_csv(io.StringIO(text), sep=sep): header row, then the data rows;
\* blank lines are skipped, short rows are filled, a long row is an error,
\* and so is a text with no line at all
read_csv(text, sep) ==
    LET recs == SplitLines(text, sep)
    IN  IF recs = <<>> THEN NoFrame
        ELSE IF \E i \in 2..Len(recs) : Len(recs[i]) > Len(recs[1]) THEN NoFrame
        ELSE [ok |-> TRUE,
              columns |-> recs[1],
              rows |-> [i \in 1..(Len(recs) - 1) |-> Pad(recs[i + 1], Len(recs[1]))]]

\* ---------------------------------------------------------------- plot_table
\* variant: the case is kept
Lower_keeps_case(tok) == tok

Lower(tok) ==
    CASE tok = "Year" -> "year"
      [] tok = "Date" -> "date"
      [] tok = "Bar" -> "bar"
      [] OTHER -> tok

\* re.search(r'date|year|time', c.lower()) on a column name
IsTimeName(name) ==
    \E j \in 1..Len(name) : Lower(name[j]) \in {"date", "year", "time", "timestamp"}

\* a field the csv reader turns into a number
IsNumericCell(cell) == Len(StripLine(cell)) = 1 /\ StripLine(cell)[1] \in Numerals

\* pd.api.types.is_numeric_dtype(df[c]): numbers, with gaps read as NaN
IsNumericColumn(df, k) ==
    /\ df.rows # <<>>
    /\ \A i \in 1..Len(df.rows) : IsNumericCell(df.rows[i][k]) \/ StripLine(df.rows[i][k]) = <<>>

\* the frame plot_table reads: markdown table, then csv, then white space
ParseTable(txt) ==
    LET md == IF HasToken(txt, "|") /\ HasSeparatorCell(txt)
              THEN read_csv([i \in 1..Len(SelectSeq(txt, LAMBDA l : ~IsSeparatorLine(l)))
                               |-> StripPipes(StripLine(
                                     SelectSeq(txt, LAMBDA l : ~IsSeparatorLine(l))[i]))], ",")
              ELSE IF Len(txt) > 1 /\ HasToken(txt, ",")
                   THEN read_csv(txt, ",")
                   ELSE NoFrame
    IN  IF md.ok THEN md ELSE read_csv(txt, " ")

\* index of the x column: the first time-like name, else the first column
XCol(df) ==
    IF \E k \in 1..Len(df.columns) : IsTimeName(df.columns[k])
    THEN CHOOSE k \in 1..Len(df.columns) :
            /\ IsTimeName(df.columns[k])
            /\ \A m \in 1..(k - 1) : ~IsTimeName(df.columns[m])
    ELSE 1

\* index of the y column, 0 for None
YCol(df) ==
    LET x == XCol(df)
        numeric_cols == {k \in 1..Len(df.columns) : IsNumericColumn(df, k) /\ df.columns[k] # df.columns[x]}
    IN  IF numeric_cols # {}
        THEN CHOOSE k \in numeric_cols : \A m \in numeric_cols : k <= m
        ELSE IF Len(df.columns) > 1 THEN 2 ELSE 0

\* variant: one more chart type is drawn
ChartTypes_with_pie == {"line", "bar", "scatter", "pie"}

ChartTypes == {"line", "bar", "scatter"}

FileName(n) == "outputs/plot_" \o ToString(n) \o ".png"

Raise(msg) == [ok |-> FALSE, value |-> msg]
Return(v) == [ok |-> TRUE, value |-> v]

\* plot_table(table_text, chart_type); lib_ok tells whether matplotlib and
\* the file system do their part, n numbers the file name
plot_table(table_text, chart_type, lib_ok, n) ==
    LET txt == StripText(table_text)
        df == ParseTable(txt)
    IN  IF txt = <<>> THEN Raise("plot_table: table_text is empty")
        ELSE IF ~df.ok THEN Raise("plot_table: Unable to parse table_text into a DataFrame.")
        ELSE IF YCol(df) = 0 THEN Raise("plot_table: No numeric column found to plot.")
        ELSE IF chart_type \notin ChartTypes
             THEN Raise("plot_table: Unsupported chart_type: " \o chart_type)
        ELSE IF ~lib_ok THEN Raise("renderer error")
        ELSE Return(FileName(n))

\* ------------------------------------------------------------------- state
VARIABLES
    messages,     \* MyGraphState["messages"], as the node or branch to run reads it
    mode,         \* MyGraphState["mode"], Absent when the caller gave none
    table_text,   \* MyGraphState["table_text"]
    pc,           \* the node or branch that runs next, END, or Failed
    error,        \* the exception app.invoke raised, "" while there is none
    files,        \* the image files under settings.PLOT_OUTPUT_DIR
    trace,        \* history: the nodes run so far, in order
    environ,      \* the three credentials of the environment the settings read
    stdout,       \* the lines main and Settings.validate have printed
    chart_type,   \* the chart_type argument of a direct plot_table call
    returned,     \* what the function called last returned (see each specification)
    example       \* the example main is running, 0 outside main's examples

vars == <<messages, mode, table_text, pc, error, files, trace,
          environ, stdout, chart_type, returned, example>>

\* the variables the graph run never touches
outside == <<environ, stdout, chart_type, returned, example>>

END == "__end__"
Failed == "failed"
Absent == "<absent>"

\* the tables the runs are given
EmptyText == <<>>
BlankText == <<<<" ">>>>
CsvText == <<<<"year", ",", "revenue">>, <<"2020", ",", "100">>, <<"2021", ",", "200">>>>
NamesText == <<<<"name">>, <<"Alice">>, <<"Bob">>>>
MarkdownText ==
    <<<<"|", "year", "|", "revenue", "|">>,
      <<"|", "---", "|", "---", "|">>,
      <<"|", "2020", "|", "100", "|">>>>
SpacedText == <<<<"a", " ", "b">>, <<"1", " ", "2">>>>
Tables == {EmptyText, BlankText, CsvText, NamesText, MarkdownText, SpacedText}

Modes == {"research", "summary", "visualize", "full", "other", Absent}

\* variant: the default of an absent mode is "research"
GetMode_defaults_to_research(m) == IF m = Absent THEN "research" ELSE m

\* state.get("mode", "full")
GetMode(m) == IF m = Absent THEN "full" ELSE m

\* messages: `by' is not a field of the program's messages; it records the
\* node that returned the message ("user" for the caller's input)
HumanMessage(content) ==
    [type |-> "human", content |-> content, tool_calls |-> <<>>, name |-> "", by |-> "user"]
AIMessage(content, tool_calls, node) ==
    [type |-> "ai", content |-> content, tool_calls |-> tool_calls, name |-> "", by |-> node]
ToolMessage(name, content, node) ==
    [type |-> "tool", content |-> content, tool_calls |-> <<>>, name |-> name, by |-> node]

Last(seq) == seq[Len(seq)]

\* hasattr(last, "tool_calls") and last.tool_calls
HasToolCalls(m) == m.type = "ai" /\ m.tool_calls # <<>>

\* variant: the update replaces the list
add_messages_overwrites(left, right) == right

\* add_messages(left, right) with fresh message ids: right is appended
add_messages(left, right) == left \o right

ToolRequests(msgs) == Cardinality({i \in 1..Len(msgs) : HasToolCalls(msgs[i])})

\* ---------------------------------------------------- the language model
SearchCall == [name |-> "web_search", args |-> [user_input |-> "query"]]
PlotCalls ==
    {[name |-> "plot_table", args |-> [table_text |-> t, chart_type |-> c]] :
        t \in {CsvText, NamesText}, c \in {"line", "pie"}}

\* the tool calls a node's runnable may return: researcher_llm is bound to
\* web_search and visualizer_llm to plot_table; the planner and the
\* summarizer run the model with no tool bound
ToolCallChoices(node) ==
    CASE node = "researcher_agent" -> {<<>>, <<SearchCall>>}
      [] node = "visualizer_agent" -> {<<>>} \cup {<<c>> : c \in PlotCalls}
      [] OTHER -> {<<>>}

VisualizerTexts ==
    {<<>>, <<"spec">>, <<"bar", "chart">>, <<"bar">>, <<"scatter">>,
     <<"line", "not", "bar">>, <<"scatter", "bar">>, <<"bar", "chart", "line">>,
     <<"Bar">>}

TextChoices(node) ==
    CASE node = "visualizer_agent" -> VisualizerTexts
      [] node = "researcher_agent" -> {<<>>, <<"findings">>}
      [] node = "summarizer_agent" -> {<<"summary">>}
      [] OTHER -> {<<"plan">>, <<>>}

\* runnable.invoke(state): one assistant message
Completions(node, msgs) ==
    {AIMessage(t, c, node) :
        t \in TextChoices(node),
        c \in {cs \in ToolCallChoices(node) :
                  cs # <<>> => ToolRequests(msgs) < MaxToolRequests}}

\* ----------------------------------------------------------------- routing
\* variant: the mode is not looked at
route_from_researcher_ignores_mode(state) ==
    IF HasToolCalls(Last(state.messages)) THEN "tools"
    ELSE "summarizer_agent"

route_from_researcher(state) ==
    IF HasToolCalls(Last(state.messages)) THEN "tools"
    ELSE IF GetMode(state.mode) = "research" THEN END
    ELSE "summarizer_agent"

\* variant: the mode is not looked at
route_from_summarizer_ignores_mode(state) ==
    IF HasToolCalls(Last(state.messages)) THEN "tools"
    ELSE "visualizer_agent"

route_from_summarizer(state) ==
    IF HasToolCalls(Last(state.messages)) THEN "tools"
    ELSE IF GetMode(state.mode) = "summary" THEN END
    ELSE "visualizer_agent"

route_from_visualizer(state) ==
    IF HasToolCalls(Last(state.messages)) THEN "tools"
    ELSE END

\* the path maps of add_conditional_edges
\* variant: the summarizer key leads to the tool node
ResearcherEnds_summarizer_to_tools ==
    ("tools" :> "tools") @@ ("summarizer_agent" :> "tools") @@ (END :> END)

ResearcherEnds ==
    ("tools" :> "tools") @@ ("summarizer_agent" :> "summarizer_agent") @@ (END :> END)
ToolsEnds == ("researcher_agent" :> "researcher_agent")
SummarizerEnds == ("visualizer_agent" :> "visualizer_agent") @@ (END :> END)
VisualizerEnds == (END :> END)

State == [messages |-> messages, mode |-> mode, table_text |-> table_text]

\* a branch looks its router's result up in its path map: ends[r]
Branch(r, ends) ==
    IF r \in DOMAIN ends
    THEN /\ pc' = ends[r]
         /\ error' = ""
    ELSE /\ pc' = Failed
         /\ error' = "KeyError: " \o r

\* ------------------------------------------------------------- environment
Keys == {"GOOGLE_API_KEY", "TAVILY_API_KEY", "ANTHROPIC_API_KEY"}

\* os.getenv(key, ""): a variable is unset (read as ""), set to "", or set
Unset == "<unset>"
Environments == [Keys -> {Unset, "", "key"}]
AllSet == [k \in Keys |-> "key"]

\* nothing returned yet
Nothing == [ok |-> FALSE, value |-> "<nothing>"]

\* ------------------------------------------------------------------- nodes
Init ==
    /\ messages = <<HumanMessage(<<"request">>)>>
    /\ mode \in Modes
    /\ table_text \in Tables
    /\ pc = "planner_agent"
    /\ error = ""
    /\ files = {}
    /\ trace = <<>>
    /\ environ = AllSet
    /\ stdout = <<>>
    /\ chart_type = "line"
    /\ returned = Nothing
    /\ example = 0

\* variant: a node also writes the mode
NodeUpdate_writes_mode(msgs) == [messages |-> msgs, mode |-> "full"]

\* return {"messages": [...]}: the update every node returns
NodeUpdate(msgs) == [messages |-> msgs]

\* mode and table_text have no reducer: such a key takes the value the
\* update holds for it and keeps its value when the update has no such key
LastValue(update, key, old) == IF key \in DOMAIN update THEN update[key] ELSE old

\* variant: the planner's edge leads to the summarizer
PlannerEdge_to_summarizer == "summarizer_agent"

\* workflow.add_edge("planner_agent", "researcher_agent")
PlannerEdge == "researcher_agent"

\* planner_agent, then the edge planner_agent -> researcher_agent
planner_agent ==
    /\ pc = "planner_agent"
    /\ trace' = Append(trace, "planner_agent")
    /\ \E ai \in Completions("planner_agent", messages) :
          LET update == NodeUpdate(<<ai>>)
          IN  /\ messages' = add_messages(messages, update.messages)
              /\ mode' = LastValue(update, "mode", mode)
              /\ table_text' = LastValue(update, "table_text", table_text)
    /\ pc' = PlannerEdge
    /\ UNCHANGED <<error, files>>
    /\ UNCHANGED outside

researcher_agent ==
    /\ pc = "researcher_agent"
    /\ trace' = Append(trace, "researcher_agent")
    /\ \E ai \in Completions("researcher_agent", messages) :
          LET update == NodeUpdate(<<ai>>)
          IN  /\ messages' = add_messages(messages, update.messages)
              /\ mode' = LastValue(update, "mode", mode)
              /\ table_text' = LastValue(update, "table_text", table_text)
    /\ pc' = "route_from_researcher"
    /\ UNCHANGED <<error, files>>
    /\ UNCHANGED outside

RouteFromResearcher ==
    /\ pc = "route_from_researcher"
    /\ Branch(route_from_researcher(State), ResearcherEnds)
    /\ UNCHANGED <<messages, mode, table_text, files, trace>>
    /\ UNCHANGED outside

summarizer_agent ==
    /\ pc = "summarizer_agent"
    /\ trace' = Append(trace, "summarizer_agent")
    /\ \E ai \in Completions("summarizer_agent", messages) :
          LET update == NodeUpdate(<<ai>>)
          IN  /\ messages' = add_messages(messages, update.messages)
              /\ mode' = LastValue(update, "mode", mode)
              /\ table_text' = LastValue(update, "table_text", table_text)
    /\ pc' = "route_from_summarizer"
    /\ UNCHANGED <<error, files>>
    /\ UNCHANGED outside

RouteFromSummarizer ==
    /\ pc = "route_from_summarizer"
    /\ Branch(route_from_summarizer(State), SummarizerEnds)
    /\ UNCHANGED <<messages, mode, table_text, files, trace>>
    /\ UNCHANGED outside

ContainsWord(text, w) == \E i \in 1..Len(text) : text[i] = w
ContainsPhrase(text, w1, w2) ==
    \E i \in 1..(Len(text) - 1) : text[i] = w1 /\ text[i + 1] = w2

\* (ai.content or "").lower()
LowerText(content) == [i \in 1..Len(content) |-> Lower(content[i])]

\* variant: scatter is looked for first
InferChartType_scatter_first(content) ==
    LET content_lower == LowerText(content)
    IN  IF ContainsWord(content_lower, "scatter") THEN "scatter"
        ELSE IF ContainsPhrase(content_lower, "bar", "chart")
                \/ (ContainsWord(content_lower, "bar") /\ ~ContainsWord(content_lower, "line"))
        THEN "bar"
        ELSE "line"

\* the chart type the auto-plot reads off the assistant's text
InferChartType(content) ==
    LET content_lower == LowerText(content)
    IN  IF ContainsPhrase(content_lower, "bar", "chart")
           \/ (ContainsWord(content_lower, "bar") /\ ~ContainsWord(content_lower, "line"))
        THEN "bar"
        ELSE IF ContainsWord(content_lower, "scatter") THEN "scatter"
        ELSE "line"

\* variant: the follow-up comes before the tool result
VisualizerOutput_follow_up_first(ai, text, r) ==
    IF HasToolCalls(ai) THEN <<ai>>
    ELSE IF text = <<>> THEN <<ai>>
    ELSE IF r.ok
         THEN <<ai,
                AIMessage(<<"Automatically plotted table as a", InferChartType(ai.content),
                            "chart. File saved at:", r.value>>, <<>>, "visualizer_agent"),
                ToolMessage("plot_table", <<r.value>>, "visualizer_agent")>>
         ELSE <<ai,
                AIMessage(<<"Failed to auto-plot the table:", r.value>>, <<>>,
                          "visualizer_agent")>>

\* variant: a failed auto-plot is reported as a tool result
VisualizerOutput_failure_as_tool_result(ai, text, r) ==
    IF HasToolCalls(ai) THEN <<ai>>
    ELSE IF text = <<>> THEN <<ai>>
    ELSE IF r.ok
         THEN <<ai,
                ToolMessage("plot_table", <<r.value>>, "visualizer_agent"),
                AIMessage(<<"Automatically plotted table as a", InferChartType(ai.content),
                            "chart. File saved at:", r.value>>, <<>>, "visualizer_agent")>>
         ELSE <<ai,
                ToolMessage("plot_table", <<"Failed to auto-plot the table:", r.value>>,
                            "visualizer_agent")>>

\* variant: the table is plotted whatever the completion asks for
VisualizerOutput_always_plots(ai, text, r) ==
    IF r.ok
    THEN <<ai,
           ToolMessage("plot_table", <<r.value>>, "visualizer_agent"),
           AIMessage(<<"Automatically plotted table as a", InferChartType(ai.content),
                       "chart. File saved at:", r.value>>, <<>>, "visualizer_agent")>>
    ELSE <<ai,
           AIMessage(<<"Failed to auto-plot the table:", r.value>>, <<>>,
                     "visualizer_agent")>>

\* variant: the message that reports a failure asks for the tool again
VisualizerOutput_failure_requests_tool(ai, text, r) ==
    IF HasToolCalls(ai) THEN <<ai>>
    ELSE IF text = <<>> THEN <<ai>>
    ELSE IF r.ok
         THEN <<ai,
                ToolMessage("plot_table", <<r.value>>, "visualizer_agent"),
                AIMessage(<<"Automatically plotted table as a", InferChartType(ai.content),
                            "chart. File saved at:", r.value>>, <<>>, "visualizer_agent")>>
         ELSE <<ai,
                AIMessage(<<"Failed to auto-plot the table:", r.value>>,
                          <<[name |-> "plot_table",
                             args |-> [table_text |-> text, chart_type |-> "line"]]>>,
                          "visualizer_agent")>>

\* what visualizer_agent returns for the completion ai; r is the outcome
\* of its own plot_table call
VisualizerOutput(ai, text, r) ==
    IF HasToolCalls(ai) THEN <<ai>>
    ELSE IF text = <<>> THEN <<ai>>
    ELSE IF r.ok
         THEN <<ai,
                ToolMessage("plot_table", <<r.value>>, "visualizer_agent"),
                AIMessage(<<"Automatically plotted table as a", InferChartType(ai.content),
                            "chart. File saved at:", r.value>>, <<>>, "visualizer_agent")>>
         ELSE <<ai,
                AIMessage(<<"Failed to auto-plot the table:", r.value>>, <<>>,
                          "visualizer_agent")>>

visualizer_agent ==
    /\ pc = "visualizer_agent"
    /\ trace' = Append(trace, "visualizer_agent")
    /\ \E ai \in Completions("visualizer_agent", messages), lib_ok \in BOOLEAN :
          LET r == plot_table(table_text, InferChartType(ai.content), lib_ok,
                              Cardinality(files) + 1)
              plotted == ~HasToolCalls(ai) /\ table_text # <<>> /\ r.ok
              update == NodeUpdate(VisualizerOutput(ai, table_text, r))
          IN  /\ messages' = add_messages(messages, update.messages)
              /\ mode' = LastValue(update, "mode", mode)
              /\ table_text' = LastValue(update, "table_text", table_text)
              /\ files' = IF plotted THEN files \cup {r.value} ELSE files
    /\ pc' = "route_from_visualizer"
    /\ UNCHANGED error
    /\ UNCHANGED outside

RouteFromVisualizer ==
    /\ pc = "route_from_visualizer"
    /\ Branch(route_from_visualizer(State), VisualizerEnds)
    /\ UNCHANGED <<messages, mode, table_text, files, trace>>
    /\ UNCHANGED outside

\* web_search: the snippets, the sentinel, or an exception of the client
SearchOutcomes ==
    {Return("results"), Return("No results found."), Raise("search failed")}

\* one tool call run by ToolNode; an exception becomes the content
\* (handle_tool_errors)
RunTool(call, search, lib_ok, n) ==
    LET r == IF call.name = "web_search" THEN search
             ELSE plot_table(call.args.table_text, call.args.chart_type, lib_ok, n)
    IN  [msg |-> ToolMessage(call.name,
                             IF r.ok THEN <<r.value>> ELSE <<"Error:", r.value>>,
                             "tools"),
         wrote |-> IF call.name = "plot_table" /\ r.ok THEN {r.value} ELSE {}]

\* tools_node, then its branch: lambda state: "researcher_agent"
tools_node ==
    /\ pc = "tools"
    /\ trace' = Append(trace, "tools")
    /\ \E search \in SearchOutcomes, lib_ok \in BOOLEAN :
          LET calls == Last(messages).tool_calls
              out == [i \in 1..Len(calls) |->
                        RunTool(calls[i], search, lib_ok, Cardinality(files) + i)]
              update == NodeUpdate([i \in 1..Len(calls) |-> out[i].msg])
          IN  /\ messages' = add_messages(messages, update.messages)
              /\ mode' = LastValue(update, "mode", mode)
              /\ table_text' = LastValue(update, "table_text", table_text)
              /\ files' = files \cup UNION {out[i].wrote : i \in 1..Len(calls)}
    /\ Branch("researcher_agent", ToolsEnds)
    /\ UNCHANGED outside

Next ==
    \/ planner_agent
    \/ researcher_agent
    \/ RouteFromResearcher
    \/ summarizer_agent
    \/ RouteFromSummarizer
    \/ visualizer_agent
    \/ RouteFromVisualizer
    \/ tools_node

Spec == Init /\ [][Next]_vars

\* the graph runs every enabled step
FairSpec == Spec /\ WF_vars(Next)

TypeOK ==
    /\ pc \in {"planner_agent", "researcher_agent", "route_from_researcher",
               "summarizer_agent", "route_from_summarizer", "visualizer_agent",
               "route_from_visualizer", "tools", END, Failed}
    /\ mode \in Modes
    /\ table_text \in Tables
    /\ Len(messages) >= 1

\* ------------------------------------------- plot_table called on its own
ColumnNames == {"id", "sales", "Year", "timestamp"}

\* header rows: distinct column names
Headers ==
    UNION {{h \in [1..n -> ColumnNames] : \A i, j \in 1..n : h[i] = h[j] => i = j} :
              n \in 1..MaxCols}

\* what a column holds: numbers only (a numeric dtype), names only, or a
\* number followed by names (an object dtype)
ColumnKinds == {"numbers", "names", "mixed"}

Cell(kind, i) == IF kind = "numbers" \/ (kind = "mixed" /\ i = 1) THEN "1" ELSE "Bob"

\* the data rows of a table of n columns
DataRows(n) ==
    {[i \in 1..r |-> [k \in 1..n |-> Cell(kinds[k], i)]] :
        r \in 0..MaxRows, kinds \in [1..n -> ColumnKinds]}

RECURSIVE Join(_, _)
Join(cells, sep) ==
    IF cells = <<>> THEN <<>>
    ELSE IF Len(cells) = 1 THEN <<cells[1]>>
    ELSE <<cells[1]>> \o sep \o Join(Tail(cells), sep)

Formats == {"csv", "markdown", "padded markdown", "whitespace"}

\* one row of cells written in a format
RenderRow(cells, fmt) ==
    CASE fmt = "csv" -> Join(cells, <<",">>)
      [] fmt = "whitespace" -> Join(cells, <<" ">>)
      [] fmt = "markdown" -> <<"|">> \o Join(cells, <<"|">>) \o <<"|">>
      [] OTHER -> <<"|", " ">> \o Join(cells, <<" ", "|", " ">>) \o <<" ", "|">>

\* a table written in a format; a markdown table has its separator row
RenderTable(header, rows, fmt) ==
    <<RenderRow(header, fmt)>>
    \o (IF fmt \in {"markdown", "padded markdown"}
        THEN <<RenderRow([k \in 1..Len(header) |-> "---"], "markdown")>>
        ELSE <<>>)
    \o [i \in 1..Len(rows) |-> RenderRow(rows[i], fmt)]

\* texts that are empty once stripped
BlankTexts == {<<>>, <<<<" ">>>>, <<<<" ">>, <<" ", " ">>>>, <<<<>>, <<>>>>}

ChartTypeArgs == {"line", "bar", "scatter", "pie"}

NoColumn == <<>>

\* the locals of plot_table once the columns are chosen: df, x_col, y_col
PlotLocals(text) ==
    LET txt == StripText(text)
        df == IF txt = <<>> THEN NoFrame ELSE ParseTable(txt)
    IN  [df |-> df,
         x_col |-> IF df.ok THEN df.columns[XCol(df)] ELSE NoColumn,
         y_col |-> IF df.ok /\ YCol(df) # 0 THEN df.columns[YCol(df)] ELSE NoColumn]

PlotInit ==
    /\ \/ table_text \in BlankTexts
       \/ \E h \in Headers, fmt \in Formats :
             \E rows \in DataRows(Len(h)) : table_text = RenderTable(h, rows, fmt)
    /\ chart_type = "line"
    /\ pc = "plot_table"
    /\ returned = Nothing
    /\ error = ""
    /\ files = {}
    /\ messages = <<>>
    /\ mode = Absent
    /\ trace = <<>>
    /\ environ = AllSet
    /\ stdout = <<>>
    /\ example = 0

\* plot_table.invoke({"table_text": ..., "chart_type": ...})
InvokePlotTable ==
    /\ pc = "plot_table"
    /\ \E ct \in ChartTypeArgs, lib_ok \in BOOLEAN :
          /\ chart_type' = ct
          /\ returned' = plot_table(table_text, ct, lib_ok, Cardinality(files) + 1)
                            @@ PlotLocals(table_text)
          /\ error' = IF returned'.ok THEN "" ELSE returned'.value
          /\ files' = IF returned'.ok THEN files \cup {returned'.value} ELSE files
    /\ pc' = "returned"
    /\ UNCHANGED <<messages, mode, table_text, trace, environ, stdout, example>>

PlotNext == InvokePlotTable

PlotSpec == PlotInit /\ [][PlotNext]_vars

\* ------------------------------------------------ last_nonempty_ai_message
MaxMessages == 4

\* a message content: a string, here its sequence of words and spaces, or a
\* list of strings
Str(s) == [list |-> FALSE, str |-> s, items |-> <<>>]
List(xs) == [list |-> TRUE, str |-> <<>>, items |-> xs]

\* bool(content)
Truthy(content) == IF content.list THEN content.items # <<>> ELSE content.str # <<>>

\* " ".join(str(x) for x in content if x)
JoinTruthy(items) == Join(SelectSeq(items, LAMBDA x : x # <<>>), <<" ">>)

\* the text last_nonempty_ai_message reads off an AIMessage
MessageText(m) ==
    LET content == IF Truthy(m.content) THEN m.content ELSE Str(<<>>)
    IN  IF content.list THEN JoinTruthy(content.items) ELSE content.str

\* variant: the text is not stripped
HasText_without_strip(m) == MessageText(m) # <<>>

\* text.strip() is not empty
HasText(m) == StripLine(MessageText(m)) # <<>>

\* a None in the list
NoMessage == [type |-> "none", content |-> Str(<<>>), tool_calls |-> <<>>, name |-> "", by |-> ""]

\* a message of another class
SystemMessage(content) ==
    [type |-> "system", content |-> content, tool_calls |-> <<>>, name |-> "", by |-> "user"]

\* the flat sequence of the messages, each with its place in the list:
\* the None entries are dropped
flatten_messages(raw_messages) ==
    LET at == SelectSeq([i \in 1..Len(raw_messages) |-> i],
                        LAMBDA i : raw_messages[i].type # "none")
    IN  [k \in 1..Len(at) |-> [at |-> at[k], m |-> raw_messages[at[k]]]]

\* the loop of last_nonempty_ai_message; last_found is the place of the
\* message found, 0 for None
RECURSIVE ScanMessages(_, _)
ScanMessages(flat, last_found) ==
    IF flat = <<>> THEN last_found
    ELSE LET m == Head(flat).m
         IN  ScanMessages(Tail(flat),
                          IF m.type \notin {"ai", "tool", "human"} THEN last_found
                          ELSE IF m.type = "ai" /\ HasText(m) THEN Head(flat).at
                          ELSE last_found)

last_nonempty_ai_message(msgs) == ScanMessages(flatten_messages(msgs), 0)

\* the contents and messages the helper is given
AIContents ==
    {Str(<<>>), Str(<<" ", " ">>), Str(<<"hello">>),
     List(<<>>), List(<<<<>>, <<" ">>>>), List(<<<<"hello">>, <<>>>>)}

HelperMessages ==
    {AIMessage(c, <<>>, "user") : c \in AIContents}
    \cup {HumanMessage(Str(<<"x">>)), ToolMessage("plot_table", Str(<<"hello">>), "user"),
          SystemMessage(Str(<<"hello">>)), NoMessage}

HelperInit ==
    /\ \E n \in 0..MaxMessages : messages \in [1..n -> HelperMessages]
    /\ pc = "last_nonempty_ai_message"
    /\ returned = Nothing
    /\ mode = Absent
    /\ table_text = EmptyText
    /\ error = ""
    /\ files = {}
    /\ trace = <<>>
    /\ environ = AllSet
    /\ stdout = <<>>
    /\ chart_type = "line"
    /\ example = 0

\* last_nonempty_ai_message(messages)
InvokeLastNonemptyAiMessage ==
    /\ pc = "last_nonempty_ai_message"
    /\ LET last_found == last_nonempty_ai_message(messages)
       IN  returned' = [ok |-> last_found # 0, value |-> "last_found", at |-> last_found]
    /\ pc' = "returned"
    /\ UNCHANGED <<messages, mode, table_text, error, files, trace, environ, stdout,
                   chart_type, example>>

HelperNext == InvokeLastNonemptyAiMessage

HelperSpec == HelperInit /\ [][HelperNext]_vars

\* -------------------------------------------------------------------- main
KeyOrder == <<"GOOGLE_API_KEY", "TAVILY_API_KEY", "ANTHROPIC_API_KEY">>

\* variant: a variable that is not set counts as given
Getenv_unset_is_given(env, key) == env[key]

\* os.getenv(key, "")
Getenv(env, key) == IF env[key] = Unset THEN "" ELSE env[key]

\* Settings.validate(): the missing variables, in the order they are tested
Missing(env) == SelectSeq(KeyOrder, LAMBDA k : Getenv(env, k) = "")

\* what Settings.validate() prints
Warning(missing) == <<"WARNING: Missing environment variables:">> \o missing

SetupHint == <<"Please set up your environment variables in .env file">>

NoFinal == <<"(no non-empty AI message)">>

\* the inputs and the titles of main's three examples
Examples ==
    <<[mode |-> "research", table_text |-> EmptyText,
       title |-> <<"EXAMPLE 1: Research-only mode">>,
       final |-> <<"--- Research-only final ---">>],
      [mode |-> "summary", table_text |-> EmptyText,
       title |-> <<"EXAMPLE 2: Summary mode">>,
       final |-> <<"--- Summary-only final ---">>],
      [mode |-> "visualize", table_text |-> CsvText,
       title |-> <<"EXAMPLE 3: Visualize mode">>,
       final |-> <<"--- Visualize final ---">>]>>

MainInit ==
    /\ environ \in Environments
    /\ pc = "main"
    /\ stdout = <<>>
    /\ example = 0
    /\ returned = Nothing
    /\ messages = <<>>
    /\ mode = Absent
    /\ table_text = EmptyText
    /\ error = ""
    /\ files = {}
    /\ trace = <<>>
    /\ chart_type = "line"

\* main, up to create_graph: settings.validate(), then the early return or
\* the three assignments to os.environ
Validate ==
    /\ pc = "main"
    /\ LET missing == Missing(environ)
       IN  IF missing # <<>>
           THEN /\ stdout' = stdout \o <<Warning(missing), SetupHint>>
                /\ returned' = [ok |-> FALSE, value |-> "validate"]
                /\ pc' = "aborted"
                /\ environ' = environ
           ELSE /\ stdout' = stdout
                /\ returned' = [ok |-> TRUE, value |-> "validate"]
                /\ pc' = "create_graph"
                /\ environ' = [k \in Keys |-> Getenv(environ, k)]
    /\ UNCHANGED <<messages, mode, table_text, error, files, trace, chart_type, example>>

\* app = create_graph()
CreateGraph ==
    /\ pc = "create_graph"
    /\ pc' = "example"
    /\ example' = 1
    /\ UNCHANGED <<messages, mode, table_text, error, files, trace, environ, stdout,
                   chart_type, returned>>

\* the title of an example and app.invoke(inputs)
InvokeExample ==
    /\ pc = "example"
    /\ stdout' = Append(stdout, Examples[example].title)
    /\ messages' = <<HumanMessage(<<"request">>)>>
    /\ mode' = Examples[example].mode
    /\ table_text' = Examples[example].table_text
    /\ trace' = <<>>
    /\ pc' = "planner_agent"
    /\ UNCHANGED <<error, files, environ, chart_type, returned, example>>

\* the messages of a run as the helper reads them
AsHelperMessages(msgs) ==
    [i \in 1..Len(msgs) |->
        [type |-> msgs[i].type, content |-> Str(msgs[i].content),
         tool_calls |-> msgs[i].tool_calls, name |-> msgs[i].name, by |-> msgs[i].by]]

\* the lines "Plot produced at:" of the third example
PlotLines(msgs) ==
    LET plots == SelectSeq(msgs, LAMBDA m : m.type = "tool" /\ m.name = "plot_table")
    IN  [i \in 1..Len(plots) |-> <<"Plot produced at:">> \o plots[i].content]

\* what main prints once app.invoke has returned, then the next example
PrintFinal ==
    /\ pc = END
    /\ example \in 1..Len(Examples)
    /\ LET last_found == last_nonempty_ai_message(AsHelperMessages(messages))
           final == IF last_found # 0 THEN messages[last_found].content ELSE NoFinal
       IN  /\ stdout' = stdout \o <<Examples[example].final, final>>
                          \o (IF example = 3 THEN PlotLines(messages) ELSE <<>>)
           /\ returned' = [ok |-> last_found # 0, value |-> "last_found"]
    /\ example' = example + 1
    /\ pc' = IF example < Len(Examples) THEN "example" ELSE "done"
    /\ UNCHANGED <<messages, mode, table_text, error, files, trace, environ, chart_type>>

MainNext ==
    \/ Validate
    \/ CreateGraph
    \/ InvokeExample
    \/ PrintFinal
    \/ Next

MainSpec == MainInit /\ [][MainNext]_vars

\* ------------------------------------------- properties of the pipeline
Routers == {"route_from_researcher", "route_from_summarizer", "route_from_visualizer"}

IsPrefix(s, t) == Len(s) <= Len(t) /\ SubSeq(t, 1, Len(s)) = s

AuthoredBy(node) == \E i \in 1..Len(messages) : messages[i].by = node

\* the trace without its tool loops: X, tools, X counts as one run of X
RECURSIVE WithoutToolLoops(_)
WithoutToolLoops(t) ==
    IF t = <<>> THEN <<>>
    ELSE IF Len(t) >= 3 /\ t[2] = "tools" /\ t[3] = t[1]
         THEN WithoutToolLoops(<<t[1]>> \o SubSeq(t, 4, Len(t)))
         ELSE <<t[1]>> \o WithoutToolLoops(Tail(t))

\* C1: a step whose last message requests a tool is followed by the Tool
\* step, and the Tool step is followed by the step that made the request
\* (Research, Summarize or Visualize); Tool never hands control elsewhere.
C1_ToolReturnsToRequester ==
    [][/\ (pc \in Routers /\ HasToolCalls(Last(messages))) => pc' = "tools"
       /\ pc = "tools" => pc' = Last(messages).by]_vars

\* C2: in a run with mode "research" the Summarize and Visualize steps never
\* run, no message is authored by them, the run does not fail, and the Tool
\* step is entered only on a tool request (else Research is followed by
\* Terminal).
C2_ResearchModeStopsAfterResearch ==
    mode = "research" =>
        /\ pc \in {"planner_agent", "researcher_agent", "route_from_researcher", "tools", END}
        /\ pc = "tools" => HasToolCalls(Last(messages))
        /\ pc = END => (Last(messages).by = "researcher_agent" /\ ~HasToolCalls(Last(messages)))
        /\ ~AuthoredBy("summarizer_agent")
        /\ ~AuthoredBy("visualizer_agent")
        /\ \A i \in 1..Len(trace) : trace[i] \in {"planner_agent", "researcher_agent", "tools"}

C2_Witness ==
    /\ mode = "research"
    /\ pc = END
    /\ trace = <<"planner_agent", "researcher_agent", "tools", "researcher_agent">>

\* C3: in a run with mode "summary" the Visualize step never runs: no message
\* is authored by it, there is no plot_table tool result and no image file.
C3_SummaryModeNeverVisualizes ==
    mode = "summary" =>
        /\ pc \notin {"visualizer_agent", "route_from_visualizer"}
        /\ ~AuthoredBy("visualizer_agent")
        /\ \A i \in 1..Len(trace) : trace[i] # "visualizer_agent"
        /\ \A i \in 1..Len(messages) : messages[i].name # "plot_table"
        /\ files = {}

C3_Witness ==
    /\ mode = "summary"
    /\ pc = END
    /\ AuthoredBy("summarizer_agent")
    /\ ~HasToolCalls(Last(messages))

\* C4: for mode "full", "visualize", an unrecognised mode or no mode, a run
\* that has reached Terminal ran Plan, Research, Summarize, Visualize in
\* that order, each once when the re-runs of a tool loop are not counted.
C4_FullPipelineOrder ==
    (mode \notin {"research", "summary"} /\ pc = END) =>
        WithoutToolLoops(trace) =
            <<"planner_agent", "researcher_agent", "summarizer_agent", "visualizer_agent">>

C4_Witness ==
    /\ mode = Absent
    /\ pc = END
    /\ \E i \in 1..Len(trace) : trace[i] = "tools"
    /\ Last(trace) = "visualizer_agent"

\* the values of pc at which a step is enabled
Running ==
    {"planner_agent", "researcher_agent", "route_from_researcher", "summarizer_agent",
     "route_from_summarizer", "visualizer_agent", "route_from_visualizer", "tools"}

\* C5: the pipeline ends at Terminal: a run that has no further step to
\* take has reached Terminal.
C5_StopsOnlyAtTerminal == pc \notin Running => pc = END

\* C6: when the Visualize step's last message requests a tool, the next step
\* is the Tool step; the run neither fails nor ends there.
C6_VisualizerToolRequestRunsTool ==
    [][(pc = "route_from_visualizer" /\ HasToolCalls(Last(messages)))
          => (pc' = "tools" /\ error' = "")]_vars

FailingRender(call) ==
    /\ call.name = "plot_table"
    /\ ~plot_table(call.args.table_text, call.args.chart_type, TRUE, 1).ok

\* C7: a tool request whose render call fails (parse failure, unsupported
\* chart type) does not abort the run: no exception is raised while it is
\* the last message, and the Tool step answers with tool-result messages
\* and hands control back to the requesting step.
C7_ToolFailureBecomesMessage ==
    [][/\ (\E i \in 1..Len(Last(messages).tool_calls) :
              FailingRender(Last(messages).tool_calls[i])) => error' = ""
       /\ pc = "tools" =>
              /\ \A i \in (Len(messages) + 1)..Len(messages') : messages'[i].type = "tool"
              /\ pc' = Last(messages).by]_vars

\* C8: the message sequence is append-only: every step leaves the previous
\* sequence as a prefix of the new one.
C8_MessagesAppendOnly == [][IsPrefix(messages, messages')]_vars

C8_Witness ==
    /\ pc = END
    /\ Len(messages) >= 9
    /\ \E i \in 1..Len(messages) : messages[i].type = "tool" /\ messages[i].by = "tools"

\* C9: when the Visualize step's model message requests no tool, table_text
\* is non-empty and the rendering succeeds (an image file is written), the
\* step appends exactly three messages: the model's message, a plot_table
\* tool result holding the file path, and an assistant message naming the
\* chart kind and the same path.
C9_AutoPlotAppendsThree ==
    [][(pc = "visualizer_agent" /\ files' # files) =>
          LET n == Len(messages)
          IN  /\ table_text # <<>>
              /\ Len(messages') = n + 3
              /\ IsPrefix(messages, messages')
              /\ messages'[n + 1].type = "ai"
              /\ messages'[n + 1].tool_calls = <<>>
              /\ messages'[n + 1].content \in VisualizerTexts
              /\ messages'[n + 2].type = "tool"
              /\ messages'[n + 2].name = "plot_table"
              /\ Len(messages'[n + 2].content) = 1
              /\ files' = files \cup {messages'[n + 2].content[1]}
              /\ messages'[n + 3].type = "ai"
              /\ messages'[n + 3].tool_calls = <<>>
              /\ messages'[n + 3].content =
                    <<"Automatically plotted table as a",
                      InferChartType(messages'[n + 1].content),
                      "chart. File saved at:",
                      messages'[n + 2].content[1]>>]_vars

C9_Witness ==
    /\ pc = END
    /\ Len(messages) >= 3
    /\ messages[Len(messages) - 2].content = <<"bar", "chart">>
    /\ messages[Len(messages) - 1].type = "tool"
    /\ messages[Len(messages) - 1].content = <<FileName(1)>>
    /\ Last(messages).content =
          <<"Automatically plotted table as a", "bar", "chart. File saved at:", FileName(1)>>

\* C10: when the rendering fails in the auto-plot of the Visualize step, the
\* step appends the model's message and one assistant message reporting the
\* failure reason, no tool result, raises nothing, and the run goes on to
\* Terminal.
C10_AutoPlotFailureIsReported ==
    [][/\ (/\ pc = "visualizer_agent"
            /\ table_text # <<>>
            /\ files' = files
            /\ ~HasToolCalls(messages'[Len(messages) + 1])) =>
              LET n == Len(messages)
              IN  /\ Len(messages') = n + 2
                  /\ IsPrefix(messages, messages')
                  /\ messages'[n + 1].type = "ai"
                  /\ messages'[n + 2].type = "ai"
                  /\ messages'[n + 2].tool_calls = <<>>
                  /\ messages'[n + 2].content =
                        <<"Failed to auto-plot the table:",
                          plot_table(table_text, InferChartType(messages'[n + 1].content),
                                     FALSE, 1).value>>
                  /\ error' = ""
                  /\ pc' = "route_from_visualizer"
       /\ (/\ pc = "route_from_visualizer"
            /\ Last(messages).content # <<>>
            /\ Last(messages).content[1] = "Failed to auto-plot the table:") =>
              (pc' = END /\ error' = "")]_vars

C10_Witness ==
    /\ pc = END
    /\ Last(messages).type = "ai"
    /\ Last(messages).content =
          <<"Failed to auto-plot the table:", "plot_table: No numeric column found to plot.">>
    /\ messages[Len(messages) - 1].by = "visualizer_agent"
    /\ messages[Len(messages) - 1].type = "ai"

\* the messages that report an auto-plot; the model's message is two back
FollowUps ==
    {i \in 3..Len(messages) :
        /\ messages[i].type = "ai"
        /\ Len(messages[i].content) = 4
        /\ messages[i].content[1] = "Automatically plotted table as a"}

\* C11 as stated: the kind is bar when the lowercased text contains "bar
\* chart" or "bar", else scatter when it contains "scatter", else line.
C11_KindBarWheneverBar ==
    \A i \in FollowUps :
        LET text == LowerText(messages[i - 2].content)
        IN  messages[i].content[2] =
                IF ContainsPhrase(text, "bar", "chart") \/ ContainsWord(text, "bar") THEN "bar"
                ELSE IF ContainsWord(text, "scatter") THEN "scatter"
                ELSE "line"

\* C11 amended: the kind is bar when the lowercased text contains "bar
\* chart", or contains "bar" and does not contain "line"; else scatter when
\* it contains "scatter"; else line.
C11_KindBarUnlessLine ==
    \A i \in FollowUps :
        LET text == LowerText(messages[i - 2].content)
            bar == \E k \in 1..Len(text) : text[k] = "bar"
            line == \E k \in 1..Len(text) : text[k] = "line"
            scatter == \E k \in 1..Len(text) : text[k] = "scatter"
            bar_chart == \E k \in 1..(Len(text) - 1) : text[k] = "bar" /\ text[k + 1] = "chart"
        IN  /\ (bar_chart \/ (bar /\ ~line)) => messages[i].content[2] = "bar"
            /\ (~bar_chart /\ ~(bar /\ ~line) /\ scatter) => messages[i].content[2] = "scatter"
            /\ (~bar_chart /\ ~(bar /\ ~line) /\ ~scatter) => messages[i].content[2] = "line"

C11_Witness ==
    \E i \in FollowUps :
        /\ messages[i - 2].content = <<"line", "not", "bar">>
        /\ messages[i].content[2] = "line"
        /\ pc = END

\* ---------------------------------------------- properties of plot_table
NumericColumns(df) == {k \in 1..Len(df.columns) : IsNumericColumn(df, k)}

\* C12: parsing fails whenever the frame has no numeric column other than
\* the chosen x column, whatever the number of columns: no y column is
\* chosen, plot_table raises and no chart is written.
C12_FailsWithoutNumericColumn ==
    (/\ pc = "returned"
     /\ returned.df.ok
     /\ \A k \in NumericColumns(returned.df) : returned.df.columns[k] = returned.x_col) =>
        (~returned.ok /\ returned.y_col = NoColumn /\ files = {})

IsMarkdownTable(text) == HasToken(text, "|") /\ HasSeparatorCell(text)

\* the comma-separated text with the cells of a markdown table
EquivalentCsv(text) ==
    LET kept == SelectSeq(text, LAMBDA l : ~IsSeparatorLine(l))
        Commas(line) == [j \in 1..Len(line) |-> IF line[j] = "|" THEN "," ELSE line[j]]
    IN  [i \in 1..Len(kept) |->
            Commas(SelectSeq(StripPipes(StripLine(kept[i])), LAMBDA tok : tok # " "))]

\* a frame with the white space around its names and cells removed
Trimmed(df) ==
    [ok |-> df.ok,
     columns |-> [k \in 1..Len(df.columns) |-> StripLine(df.columns[k])],
     rows |-> [i \in 1..Len(df.rows) |->
                 [k \in 1..Len(df.rows[i]) |-> StripLine(df.rows[i][k])]]]

\* C13: a markdown pipe table parses to the same column names, rows and
\* x and y columns as the equivalent comma-separated text.
C13_MarkdownParsesLikeCsv ==
    (pc = "returned" /\ IsMarkdownTable(table_text)) =>
        LET csv == PlotLocals(EquivalentCsv(table_text))
        IN  /\ Trimmed(returned.df) = Trimmed(csv.df)
            /\ StripLine(returned.x_col) = StripLine(csv.x_col)
            /\ StripLine(returned.y_col) = StripLine(csv.y_col)

\* C14: with a chart_type other than line, bar and scatter, plot_table
\* raises the unsupported-chart-type error for every table whose columns
\* were chosen; no file is written and no path is returned.
C14_UnsupportedChartType ==
    (/\ pc = "returned"
     /\ chart_type \notin {"line", "bar", "scatter"}
     /\ returned.y_col # NoColumn) =>
        /\ ~returned.ok
        /\ returned.value = "plot_table: Unsupported chart_type: " \o chart_type
        /\ error = returned.value
        /\ files = {}

C14_Witness ==
    /\ pc = "returned"
    /\ chart_type = "pie"
    /\ table_text = <<<<"Year", ",", "sales">>, <<"1", ",", "1">>, <<"1", ",", "1">>>>
    /\ returned.y_col = <<"sales">>
    /\ error = "plot_table: Unsupported chart_type: pie"

IsBlankText(text) == \A i \in 1..Len(text) : \A j \in 1..Len(text[i]) : text[i][j] = " "

\* C17: for an empty or whitespace-only table text plot_table raises the
\* empty-text error, before any frame is read, and writes no file.
C17_BlankTextIsRejected ==
    (pc = "returned" /\ IsBlankText(table_text)) =>
        /\ ~returned.ok
        /\ returned.value = "plot_table: table_text is empty"
        /\ ~returned.df.ok
        /\ files = {}

C17_Witness ==
    /\ pc = "returned"
    /\ table_text = <<<<" ">>, <<" ", " ">>>>
    /\ error = "plot_table: table_text is empty"

\* the words of the tables whose lower case contains date, year or time
TimeWords == {"date", "Date", "year", "Year", "time", "timestamp"}

HasTimeWord(name) == \E j \in 1..Len(name) : name[j] \in TimeWords

\* C19: the x column is the first column, in declared order, whose
\* lowercased name contains "date", "year" or "time"; the first declared
\* column when no name does.
C19_XColumnIsFirstTimeName ==
    (pc = "returned" /\ returned.df.ok) =>
        LET columns == returned.df.columns
        IN  \E x \in 1..Len(columns) :
               /\ returned.x_col = columns[x]
               /\ \A m \in 1..(x - 1) : ~HasTimeWord(columns[m])
               /\ HasTimeWord(columns[x]) \/ (x = 1 /\ \A m \in 1..Len(columns) : ~HasTimeWord(columns[m]))

C19_Witness ==
    /\ pc = "returned"
    /\ returned.df.ok
    /\ returned.df.columns = <<<<"sales">>, <<"Year">>>>
    /\ returned.x_col = <<"Year">>

\* C20: whenever a y column is chosen it is a different column from the x
\* column.
C20_YColumnDiffersFromX ==
    (pc = "returned" /\ returned.y_col # NoColumn) => returned.y_col # returned.x_col

\* ----------------------------------------- properties of the helper and main
\* a content with a character other than white space
NonBlank(content) ==
    \/ \E j \in 1..Len(content.str) : content.str[j] # " "
    \/ \E k \in 1..Len(content.items) :
          \E j \in 1..Len(content.items[k]) : content.items[k][j] # " "

\* C15: last_nonempty_ai_message returns the assistant message with the
\* greatest index whose text is not blank, never a human or a tool message,
\* and None exactly when no assistant message has a text that is not blank.
C15_LastNonBlankAssistantMessage ==
    pc = "returned" =>
        LET found == {i \in 1..Len(messages) :
                         messages[i].type = "ai" /\ NonBlank(messages[i].content)}
        IN  /\ returned.ok <=> found # {}
            /\ returned.at = 0 <=> found = {}
            /\ found # {} => /\ returned.at \in found
                             /\ \A i \in found : i <= returned.at

C15_Witness ==
    /\ pc = "returned"
    /\ messages = <<AIMessage(Str(<<>>), <<>>, "user"), AIMessage(Str(<<" ", " ">>), <<>>, "user"),
                    AIMessage(Str(<<"hello">>), <<>>, "user"), HumanMessage(Str(<<"x">>))>>
    /\ returned.at = 3

\* C16: when one of the three credentials is missing, validation fails
\* with a warning that lists every missing variable and main returns
\* before the graph is created and before any invocation; validation
\* succeeds only when the three are present.
C16_MissingCredentialAborts ==
    LET missing == {k \in Keys : environ[k] \in {Unset, ""}}
    IN  /\ missing # {} =>
              /\ pc \in {"main", "aborted"}
              /\ messages = <<>> /\ trace = <<>> /\ example = 0
              /\ pc = "aborted" =>
                    /\ ~returned.ok
                    /\ stdout[1][1] = "WARNING: Missing environment variables:"
                    /\ {stdout[1][j] : j \in 2..Len(stdout[1])} = missing
                    /\ Len(stdout[1]) = 1 + Cardinality(missing)
        /\ (returned.value = "validate" /\ returned.ok) => missing = {}
        /\ pc \notin {"main", "aborted"} => missing = {}

C16_Witness ==
    /\ pc = "aborted"
    /\ environ = [k \in Keys |-> IF k = "GOOGLE_API_KEY" THEN "key"
                                  ELSE IF k = "TAVILY_API_KEY" THEN "" ELSE Unset]
    /\ stdout = <<<<"WARNING: Missing environment variables:",
                    "TAVILY_API_KEY", "ANTHROPIC_API_KEY">>,
                  <<"Please set up your environment variables in .env file">>>>

\* C18: every run starts with the planner, the planner runs exactly once
\* in every mode, and the node that runs right after it is the researcher,
\* whatever the mode and whatever the planner's message says.
C18_PlanOnceThenResearch ==
    /\ trace = <<>> => pc = "planner_agent"
    /\ trace # <<>> => trace[1] = "planner_agent"
    /\ \A i \in 2..Len(trace) : trace[i] # "planner_agent"
    /\ Len(trace) = 1 => pc = "researcher_agent"
    /\ Len(trace) >= 2 => trace[2] = "researcher_agent"
    /\ pc \in {END, Failed} => Len(trace) >= 2

C18_Witness ==
    /\ pc = END
    /\ mode = "summary"
    /\ messages[2].by = "planner_agent"
    /\ messages[2].content = <<>>
    /\ Len(trace) >= 3
    /\ trace[1] = "planner_agent"
    /\ trace[2] = "researcher_agent"

\* ------------------------------------- properties of the steps and the edges
\* the first message a node's step appends
Appended == messages'[Len(messages) + 1]

\* C21: when the model's message carries a tool request, or carries none
\* and table_text is empty, the visualizer appends that message and
\* nothing else, and does not call plot_table itself: no file is written.
C21_VisualizerReturnsOnlyModelMessage ==
    [][(/\ pc = "visualizer_agent"
        /\ Len(messages') > Len(messages)
        /\ HasToolCalls(Appended) \/ table_text = <<>>) =>
          /\ Len(messages') = Len(messages) + 1
          /\ Appended.type = "ai"
          /\ Appended.by = "visualizer_agent"
          /\ SubSeq(messages', 1, Len(messages)) = messages
          /\ files' = files]_vars

C21_Witness ==
    /\ pc = "route_from_visualizer"
    /\ table_text = CsvText
    /\ HasToolCalls(Last(messages))
    /\ Last(messages).by = "visualizer_agent"
    /\ Cardinality({i \in 1..Len(messages) : messages[i].by = "visualizer_agent"}) = 1
    /\ files = {}

\* C22: whatever a router returns is a key of its step's conditional-edge
\* map, for the researcher, the summarizer and the visualizer, so no run
\* is left without a next step.
C22_RouterResultIsWired ==
    /\ pc = "route_from_researcher" => route_from_researcher(State) \in DOMAIN ResearcherEnds
    /\ pc = "route_from_summarizer" => route_from_summarizer(State) \in DOMAIN SummarizerEnds
    /\ pc = "route_from_visualizer" => route_from_visualizer(State) \in DOMAIN VisualizerEnds
    /\ pc # Failed

\* C23: no step changes mode or table_text.
C23_ModeAndTableAreKept ==
    [][mode' = mode /\ table_text' = table_text]_vars

C23_Witness ==
    /\ pc = END
    /\ mode = "full"
    /\ table_text = CsvText
    /\ \E i \in 1..Len(trace) : trace[i] = "tools"
    /\ trace[Len(trace)] = "visualizer_agent"

\* C24: the tool node runs only when the last message is an assistant
\* message with at least one tool request; it is entered from a branch,
\* never from the planner or from END, and never after a message without
\* tool requests.
C24_ToolsOnlyOnRequest ==
    [][/\ pc = "tools" => (Last(messages).type = "ai" /\ Last(messages).tool_calls # <<>>)
       /\ pc' = "tools" => /\ pc \in Routers
                           /\ Last(messages').type = "ai"
                           /\ Last(messages').tool_calls # <<>>
       /\ pc \in {END, Failed} => pc' = pc]_vars

C24_Witness ==
    /\ pc = "tools"
    /\ Last(messages).type = "ai"
    /\ Len(Last(messages).tool_calls) = 1
    /\ trace[Len(trace)] = "researcher_agent"

\* C25: when the visualizer's completion carries no tool request, the
\* last message the visualizer appends carries none either (table or no
\* table, plot written or failed), its branch leads to END, and the
\* visualizer runs once.
C25_VisualizerEndsRun ==
    [][/\ (/\ pc = "visualizer_agent"
            /\ Len(messages') > Len(messages)
            /\ ~HasToolCalls(Appended)) =>
              (Last(messages').tool_calls = <<>> /\ pc' = "route_from_visualizer")
       /\ (pc = "route_from_visualizer" /\ Last(messages).tool_calls = <<>>) => pc' = END
       /\ pc = END => pc' = END
       /\ Cardinality({i \in 1..Len(trace') : trace'[i] = "visualizer_agent"}) <= 1]_vars

C25_Witness ==
    /\ pc = END
    /\ trace[Len(trace)] = "visualizer_agent"
    /\ Len(Last(messages).content) = 2
    /\ Last(messages).content[1] = "Failed to auto-plot the table:"
    /\ Last(messages).tool_calls = <<>>

====
